---- MODULE Spec2Model ----
(***************************************************************************)
(* Model of src/Server.js: an Express service that creates, reads,         *)
(* updates and deletes profile documents (Mongoose model Profile) and      *)
(* uploads images to Cloudinary.  Every request handler is an async        *)
(* function: one action is the synchronous run of the handler up to its    *)
(* next await, together with the completion of the awaited call.           *)
(*                                                                         *)
(* Strings are sequences of one-character strings, so that trim,           *)
(* toLowerCase, replace and RegExp matching are computed.  Opaque text     *)
(* (names, phone numbers, URLs) is a sequence holding a single token.      *)
(***************************************************************************)
EXTENDS Integers, Sequences, FiniteSets, TLC

\* Total number of requests the server receives in one behaviour.
MaxRequests == 2

\* Concurrently open requests (handlers between arrival and response).
Slots == {"r1", "r2"}

-----------------------------------------------------------------------------
(* Values *)

\* JavaScript undefined / a field missing from req.body.
Undefined == <<"undefined">>
\* The empty string "".
EmptyString == <<>>

Str_ab      == <<"a", "b">>
Str_ab_pad  == <<" ", "a", "b", " ">>
Str_abc     == <<"a", "b", "c">>
Str_ABC     == <<"A", "B", "C">>
Str_a_b     == <<"a", " ", "b">>
Str_a_b_up  == <<"A", " ", "B">>
Str_ahb     == <<"a", "-", "b">>
Str_ahbhc   == <<"a", "-", "b", "-", "c">>
Str_a_bhc   == <<"a", " ", "b", "-", "c">>
Str_a_bhc_up == <<"A", " ", "B", "-", "C">>
Str_a_b_c   == <<"a", " ", "b", " ", "c">>
Str_adc     == <<"a", ".", "c">>

Name1  == <<"Jane">>
Job1   == <<"Eng">>
Phone1 == <<"555">>
Mail1  == <<"j@x">>
True   == <<"true">>
False  == <<"false">>
OldUrl == <<"https://old">>

\* socialLinks as a structured record: a set of <<field, value>> pairs.
NoLinks  == {}
Links1   == {<<"website", "w1">>}
\* socialLinks as the serialized text of a multipart field (token sequence).
JsonEmpty     == <<"{", "}">>
JsonLinks1    == <<"{", "website", ":", "w1", "}">>
JsonMalformed == <<"{", "website", ":">>

-----------------------------------------------------------------------------
(* String functions of the JavaScript runtime, as the handlers use them *)

IsSpace(c) == c = " "

RECURSIVE TrimStart(_)
TrimStart(s) == IF s # <<>> /\ IsSpace(Head(s)) THEN TrimStart(Tail(s)) ELSE s

RECURSIVE TrimEnd(_)
TrimEnd(s) ==
    IF s # <<>> /\ IsSpace(s[Len(s)]) THEN TrimEnd(SubSeq(s, 1, Len(s) - 1)) ELSE s

\* String.prototype.trim
Trim(s) == TrimEnd(TrimStart(s))

ToLowerChar(c) ==
    CASE c = "A" -> "a" [] c = "B" -> "b" [] c = "C" -> "c" [] OTHER -> c

\* String.prototype.toLowerCase
ToLowerCase(s) == [i \in 1..Len(s) |-> ToLowerChar(s[i])]

\* s.replace(/\s+/g, "-"): every maximal run of whitespace becomes one hyphen
RECURSIVE ReplaceSpaceRuns(_)
ReplaceSpaceRuns(s) ==
    IF s = <<>> THEN <<>>
    ELSE IF IsSpace(Head(s)) THEN <<"-">> \o ReplaceSpaceRuns(TrimStart(s))
    ELSE <<Head(s)>> \o ReplaceSpaceRuns(Tail(s))

\* Variant: s.replace(/-/g, ' '), every hyphen replaced.
ReplaceAllHyphens(s) == [i \in 1..Len(s) |-> IF s[i] = "-" THEN " " ELSE s[i]]

\* s.replace('-', ' '): a string pattern replaces the first occurrence only
RECURSIVE ReplaceFirstHyphen(_)
ReplaceFirstHyphen(s) ==
    IF s = <<>> THEN <<>>
    ELSE IF Head(s) = "-" THEN <<" ">> \o Tail(s)
    ELSE <<Head(s)>> \o ReplaceFirstHyphen(Tail(s))

\* new RegExp(`^${src}$`, 'i').test(s): src is spliced in unescaped, so "."
\* is the any-character wildcard; every other character of the alphabet
\* used here is a literal, compared ignoring letter case.
RegExpMatchI(src, s) ==
    /\ s # Undefined
    /\ Len(s) = Len(src)
    /\ \A i \in 1..Len(src) :
          \/ src[i] = "."
          \/ ToLowerChar(src[i]) = ToLowerChar(s[i])

\* JavaScript truthiness of a string-or-undefined value
Truthy(v) == v # Undefined /\ v # EmptyString

\* JSON.parse of the serialized socialLinks: an object with at most one
\* member, or a SyntaxError.
JsonParse(t) ==
    IF t = <<"{", "}">> THEN [ok |-> TRUE, value |-> {}]
    ELSE IF Len(t) = 5 /\ t[1] = "{" /\ t[3] = ":" /\ t[5] = "}"
         THEN [ok |-> TRUE, value |-> {<<t[2], t[4]>>}]
    ELSE [ok |-> FALSE, value |-> {}]

-----------------------------------------------------------------------------
(* Request inputs *)

\* The text fields of req.body other than username, socialLinks and images.
TextFull    == [name |-> Name1, jobTitle |-> Job1, phone |-> Phone1,
                email |-> Mail1, isVerified |-> True, isCompany |-> False]
TextNoPhone == [name |-> Name1, jobTitle |-> Job1, phone |-> Undefined,
                email |-> Undefined, isVerified |-> Undefined,
                isCompany |-> Undefined]
TextNoName  == [name |-> Undefined, jobTitle |-> Job1, phone |-> Phone1,
                email |-> Mail1, isVerified |-> True, isCompany |-> False]

\* req.files: which of the two multipart files are attached.
FileSets  == [profileImage : BOOLEAN, headerImage : BOOLEAN]
NoFiles   == [profileImage |-> FALSE, headerImage |-> FALSE]
BothFiles == [profileImage |-> TRUE, headerImage |-> TRUE]

\* req.body.profileImage / req.body.headerImage of an update.
NoImageBody == [profileImage |-> Undefined, headerImage |-> Undefined]

\* The create requests the clients send: [username, text, files, socialLinks].
CreateInputs ==
    [username : {Undefined, Str_ab, Str_ab_pad}, text : {TextFull},
     files : {BothFiles}, socialLinks : {Links1}]
    \cup
    [username : {Str_abc, Str_ABC}, text : {TextFull},
     files : FileSets, socialLinks : {Links1}]
    \cup
    [username : {Str_abc}, text : {TextNoName},
     files : {NoFiles}, socialLinks : {NoLinks}]

\* The image part of an update request: the URL strings of the body and the
\* attached files.
ImageInputs ==
    { [imageBody |-> [profileImage |-> OldUrl, headerImage |-> OldUrl],
       files |-> NoFiles],
      [imageBody |-> [profileImage |-> OldUrl, headerImage |-> Undefined],
       files |-> [profileImage |-> TRUE, headerImage |-> FALSE]],
      [imageBody |-> [profileImage |-> Undefined, headerImage |-> OldUrl],
       files |-> [profileImage |-> FALSE, headerImage |-> TRUE]],
      [imageBody |-> NoImageBody, files |-> BothFiles] }

\* The update requests the clients send:
\* [key, username, text, image, socialLinks].
UpdateInputs ==
    [key : {Str_abc}, username : {Str_ab, Str_abc, Str_ABC},
     text : {TextNoPhone}, image : ImageInputs,
     socialLinks : {JsonLinks1}]
    \cup
    [key : {Str_abc}, username : {Str_abc},
     text : {TextFull}, image : {CHOOSE i \in ImageInputs : i.files = NoFiles},
     socialLinks : {JsonLinks1}]
    \cup
    [key : {Str_abc}, username : {Undefined, Str_abc},
     text : {TextNoPhone}, image : {CHOOSE i \in ImageInputs : i.files = NoFiles},
     socialLinks : {Undefined, JsonMalformed}]

\* The keys of the delete and read requests the clients send.
PathKeys == {Str_abc, Str_adc}
ReadKeys == {Str_abc}

\* result.secure_url of a successful upload: a URL the Image Store makes up
\* for the uploaded field.
SecureUrl(field) == <<"https://cdn", field>>
\* error.message of a failed upload.
UploadError == "upload failed"

-----------------------------------------------------------------------------
(* State *)

VARIABLES
    store,      \* the Profile collection: a set of documents
    reqs,       \* per slot: the handler's position, inputs, locals, response
    started     \* number of requests received so far

vars == <<store, reqs, started>>

\* A slot with no request in it.
IdleReq ==
    [kind |-> "none", pc |-> "idle", key |-> EmptyString,
     username |-> Undefined, text |-> TextNoPhone, socialLinks |-> NoLinks,
     rawSocialLinks |-> Undefined,
     imageBody |-> NoImageBody, files |-> NoFiles,
     profileImageUrl |-> Undefined, headerImageUrl |-> Undefined,
     parsedSocialLinks |-> NoLinks, profileKey |-> EmptyString,
     status |-> 0, message |-> "", error |-> "",
     calls |-> <<>>, storedAtStart |-> FALSE]

\* new Profile({...}) of the create handler, with the schema defaults.
NewProfile(q) ==
    [username |-> q.username,
     name |-> q.text.name,
     jobTitle |-> q.text.jobTitle,
     profileImage |-> q.profileImageUrl,
     headerImage |-> q.headerImageUrl,
     phone |-> q.text.phone,
     email |-> q.text.email,
     isVerified |-> IF q.text.isVerified = Undefined THEN False
                    ELSE q.text.isVerified,
     isCompany |-> IF q.text.isCompany = Undefined THEN False
                   ELSE q.text.isCompany,
     socialLinks |-> q.socialLinks]

\* Variant: the image fields keep the body's URL strings although a file was
\* uploaded.
UpdateDocKeepsBodyUrls(q) ==
    [username |-> q.username,
     name |-> q.text.name,
     jobTitle |-> q.text.jobTitle,
     profileImage |-> q.imageBody.profileImage,
     headerImage |-> q.imageBody.headerImage,
     phone |-> q.text.phone,
     email |-> q.text.email,
     isVerified |-> q.text.isVerified,
     isCompany |-> q.text.isCompany,
     socialLinks |-> q.parsedSocialLinks]

\* The update document handed to findOneAndUpdate.
UpdateDoc(q) ==
    [username |-> q.username,
     name |-> q.text.name,
     jobTitle |-> q.text.jobTitle,
     profileImage |-> q.profileImageUrl,
     headerImage |-> q.headerImageUrl,
     phone |-> q.text.phone,
     email |-> q.text.email,
     isVerified |-> q.text.isVerified,
     isCompany |-> q.text.isCompany,
     socialLinks |-> q.parsedSocialLinks]

\* A document as a create without files stores it.
Seed(u) ==
    NewProfile([IdleReq EXCEPT !.username = u, !.text = TextFull,
                               !.profileImageUrl = EmptyString,
                               !.headerImageUrl = EmptyString])

\* ProfileSchema: username, name and jobTitle are required strings.
RequiredOk(doc) ==
    /\ Truthy(doc.username)
    /\ Truthy(doc.name)
    /\ Truthy(doc.jobTitle)

\* Variant: the collection has no unique index.
UniqueOkNoIndex(docs, doc) == TRUE

\* ProfileSchema: username is unique (unique index of the collection).
UniqueOk(docs, doc) == \A p \in docs : p.username # doc.username

\* username.toLowerCase().replace(/\s+/g, "-")
ProfileKeyOf(u) == ReplaceSpaceRuns(ToLowerCase(u))

\* Variant: the existence check looks up the derived profileKey.
UsernameTakenByKey(docs, u) == \E p \in docs : p.username = ProfileKeyOf(u)

\* Profile.findOne({ username }): an exact, case-sensitive match exists.
UsernameTaken(docs, u) == \E p \in docs : p.username = u

\* Variant: the length is taken without trimming.
InvalidUsernameUntrimmed(u) == ~Truthy(u) \/ Len(u) < 3

\* if (!username || username.trim().length < 3)
InvalidUsername(u) == ~Truthy(u) \/ Len(Trim(u)) < 3

\* The collection when the server starts: documents earlier creates left.
InitialStores == {{}, {Seed(Str_abc)}, {Seed(Str_abc), Seed(Str_ABC)}}

TypeOK ==
    /\ IsFiniteSet(store)
    /\ started \in 0..(MaxRequests + 1)
    /\ \A r \in Slots :
          /\ reqs[r].kind \in {"none", "create", "read", "update", "delete"}
          /\ reqs[r].status \in {0, 200, 201, 400, 404, 500}

Init ==
    /\ store \in InitialStores
    /\ reqs = [r \in Slots |-> IdleReq]
    /\ started = 0

\* res.status(code).json({message, error}) and the handler returns.
Respond(q, code, msg, err) ==
    [q EXCEPT !.pc = "done", !.status = code, !.message = msg, !.error = err]

Called(q, what) == [q EXCEPT !.calls = Append(q.calls, what)]

-----------------------------------------------------------------------------
(* POST /api/save-profile *)

\* The await the create handler reaches once the existence check has passed.
CreateAfterFindOne(q) ==
    IF q.files.profileImage THEN "uploadProfile"
    ELSE IF q.files.headerImage THEN "uploadHeader"
    ELSE "save"

\* Variant: the upload error is swallowed and the handler goes on to save.
CreateUploadErrorSwallowed(q) == [q EXCEPT !.pc = "save"]

\* reject(error) of an upload inside the create handler's try block: the
\* catch block answers 500 with err.message.
CreateUploadRejected(q) == Respond(q, 500, "Server error", UploadError)

\* The request arrives with one of the given inputs; validation;
\* Profile.findOne is issued.
CreateRequestWith(r, inputs) ==
    /\ reqs[r].pc = "idle"
    /\ started < MaxRequests
    /\ \E i \in inputs :
         LET q == [IdleReq EXCEPT !.kind = "create", !.username = i.username,
                       !.text = i.text, !.files = i.files,
                       !.socialLinks = i.socialLinks,
                       !.storedAtStart =
                           \E p \in store : p.username = i.username]
         IN reqs' = [reqs EXCEPT ![r] =
                IF InvalidUsername(i.username)
                THEN Respond(q, 400,
                        "Username must be at least 3 characters long.", "")
                ELSE [q EXCEPT !.pc = "findOne",
                               !.profileKey = ProfileKeyOf(i.username)]]
    /\ started' = started + 1
    /\ UNCHANGED store

CreateRequest(r) == CreateRequestWith(r, CreateInputs)

\* Profile.findOne({ username }) completes.
CreateFindOne(r) ==
    /\ reqs[r].kind = "create"
    /\ reqs[r].pc = "findOne"
    /\ LET q == Called(reqs[r], "findOne")
       IN reqs' = [reqs EXCEPT ![r] =
              IF UsernameTaken(store, q.username)
              THEN Respond(q, 400, "Username is already taken.", "")
              ELSE [q EXCEPT !.pc = CreateAfterFindOne(q),
                             !.profileImageUrl = EmptyString,
                             !.headerImageUrl = EmptyString]]
    /\ UNCHANGED <<store, started>>

\* The upload of req.files.profileImage[0] completes or fails.
CreateUploadProfile(r) ==
    /\ reqs[r].kind = "create"
    /\ reqs[r].pc = "uploadProfile"
    /\ LET q == Called(reqs[r], "upload")
       IN \/ reqs' = [reqs EXCEPT ![r] =
                 [q EXCEPT !.profileImageUrl = SecureUrl("profileImage"),
                           !.pc = IF q.files.headerImage THEN "uploadHeader"
                                  ELSE "save"]]
          \/ reqs' = [reqs EXCEPT ![r] = CreateUploadRejected(q)]
    /\ UNCHANGED <<store, started>>

\* The upload of req.files.headerImage[0] completes or fails.
CreateUploadHeader(r) ==
    /\ reqs[r].kind = "create"
    /\ reqs[r].pc = "uploadHeader"
    /\ LET q == Called(reqs[r], "upload")
       IN \/ reqs' = [reqs EXCEPT ![r] =
                 [q EXCEPT !.headerImageUrl = SecureUrl("headerImage"),
                           !.pc = "save"]]
          \/ reqs' = [reqs EXCEPT ![r] = CreateUploadRejected(q)]
    /\ UNCHANGED <<store, started>>

\* newProfile.save() completes: schema validation, then the insert under the
\* unique index; the catch block maps error code 11000 to 400.
CreateSave(r) ==
    /\ reqs[r].kind = "create"
    /\ reqs[r].pc = "save"
    /\ LET q   == Called(reqs[r], "insert")
           doc == NewProfile(q)
       IN IF ~RequiredOk(doc)
          THEN /\ reqs' = [reqs EXCEPT ![r] =
                      Respond(q, 500, "Server error", "ValidationError")]
               /\ UNCHANGED store
          ELSE IF ~UniqueOk(store, doc)
          THEN /\ reqs' = [reqs EXCEPT ![r] =
                      Respond(q, 400,
                          "Profile key or username already exists.", "E11000")]
               /\ UNCHANGED store
          ELSE /\ store' = store \cup {doc}
               /\ reqs' = [reqs EXCEPT ![r] =
                      Respond(q, 201, "Profile saved successfully", "")]
    /\ UNCHANGED started

-----------------------------------------------------------------------------
(* GET /:profileKey *)

\* The request arrives; Profile.findOne is issued.
ReadRequest(r) ==
    /\ reqs[r].pc = "idle"
    /\ started < MaxRequests
    /\ \E k \in ReadKeys :
         reqs' = [reqs EXCEPT ![r] =
                    [IdleReq EXCEPT !.kind = "read", !.key = k,
                                    !.pc = "findOne"]]
    /\ started' = started + 1
    /\ UNCHANGED store

\* Profile.findOne({ username: profileKey }) completes.
ReadFindOne(r) ==
    /\ reqs[r].kind = "read"
    /\ reqs[r].pc = "findOne"
    /\ LET q == Called(reqs[r], "findOne")
       IN reqs' = [reqs EXCEPT ![r] =
              IF \E p \in store : p.username = q.key
              THEN Respond(q, 200, "profile", "")
              ELSE Respond(q, 404, "Profile not found", "")]
    /\ UNCHANGED <<store, started>>

-----------------------------------------------------------------------------
(* DELETE /api/profiles/:profileKey *)

\* The documents the filter of the delete handler selects.
DeleteMatches(docs, key) ==
    {p \in docs : RegExpMatchI(ReplaceFirstHyphen(key), p.username)}

\* The request arrives with one of the given keys; findOneAndDelete is issued.
DeleteRequestWith(r, keys) ==
    /\ reqs[r].pc = "idle"
    /\ started < MaxRequests
    /\ \E k \in keys :
         reqs' = [reqs EXCEPT ![r] =
                    [IdleReq EXCEPT !.kind = "delete", !.key = k,
                                    !.pc = "findOneAndDelete"]]
    /\ started' = started + 1
    /\ UNCHANGED store

DeleteRequest(r) == DeleteRequestWith(r, PathKeys)

\* Profile.findOneAndDelete completes: the first matching document, in the
\* collection's own order, is removed.
DeleteFindOneAndDelete(r) ==
    /\ reqs[r].kind = "delete"
    /\ reqs[r].pc = "findOneAndDelete"
    /\ LET q == Called(reqs[r], "findOneAndDelete")
           m == DeleteMatches(store, q.key)
       IN IF m = {}
          THEN /\ reqs' = [reqs EXCEPT ![r] =
                      Respond(q, 404, "Profile not found", "")]
               /\ UNCHANGED store
          ELSE /\ \E p \in m : store' = store \ {p}
               /\ reqs' = [reqs EXCEPT ![r] =
                      Respond(q, 200, "Profile deleted successfully", "")]
    /\ UNCHANGED started

-----------------------------------------------------------------------------
(* PUT /api/update-profile/:profileKey *)

\* The documents the filter of the update handler selects.
UpdateMatches(docs, key) == {p \in docs : RegExpMatchI(key, p.username)}

\* Variant: the handler skips the uploads.
UpdateFirstAwaitSkipsUploads(f) == "findOneAndUpdate"

\* The await the update handler reaches first inside its try block.
UpdateFirstAwait(f) ==
    IF f.profileImage THEN "uploadProfile"
    ELSE IF f.headerImage THEN "uploadHeader"
    ELSE "findOneAndUpdate"

\* What a request gets when JSON.parse throws: the statement stands before
\* the try block, so the async handler's promise rejects.  The routing layer
\* either drops the rejection (the request is never answered) or hands it to
\* its default error handler (500).
ParseFailureOutcomes(q) ==
    { [q EXCEPT !.pc = "crashed", !.error = "SyntaxError"],
      Respond(q, 500, "", "SyntaxError") }

\* The request arrives with one of the given inputs; image URLs default to
\* the body's; socialLinks is parsed; the first await is reached.
UpdateRequestWith(r, inputs) ==
    /\ reqs[r].pc = "idle"
    /\ started < MaxRequests
    /\ \E i \in inputs :
         LET q == [IdleReq EXCEPT !.kind = "update", !.key = i.key,
                       !.username = i.username, !.text = i.text,
                       !.imageBody = i.image.imageBody,
                       !.files = i.image.files,
                       !.rawSocialLinks = i.socialLinks,
                       !.profileImageUrl = i.image.imageBody.profileImage,
                       !.headerImageUrl = i.image.imageBody.headerImage]
             parsed == JsonParse(i.socialLinks)
         IN IF Truthy(i.socialLinks) /\ ~parsed.ok
            THEN \E o \in ParseFailureOutcomes(q) :
                    reqs' = [reqs EXCEPT ![r] = o]
            ELSE reqs' = [reqs EXCEPT ![r] =
                    [q EXCEPT !.parsedSocialLinks =
                                  IF Truthy(i.socialLinks) THEN parsed.value
                                  ELSE NoLinks,
                              !.pc = UpdateFirstAwait(i.image.files)]]
    /\ started' = started + 1
    /\ UNCHANGED store

UpdateRequest(r) == UpdateRequestWith(r, UpdateInputs)

\* The upload of req.files.profileImage[0] completes or fails.
UpdateUploadProfile(r) ==
    /\ reqs[r].kind = "update"
    /\ reqs[r].pc = "uploadProfile"
    /\ LET q == Called(reqs[r], "upload")
       IN \/ reqs' = [reqs EXCEPT ![r] =
                 [q EXCEPT !.profileImageUrl = SecureUrl("profileImage"),
                           !.pc = IF q.files.headerImage THEN "uploadHeader"
                                  ELSE "findOneAndUpdate"]]
          \/ reqs' = [reqs EXCEPT ![r] =
                 Respond(q, 500, "Error updating profile", UploadError)]
    /\ UNCHANGED <<store, started>>

\* The upload of req.files.headerImage[0] completes or fails.
UpdateUploadHeader(r) ==
    /\ reqs[r].kind = "update"
    /\ reqs[r].pc = "uploadHeader"
    /\ LET q == Called(reqs[r], "upload")
       IN \/ reqs' = [reqs EXCEPT ![r] =
                 [q EXCEPT !.headerImageUrl = SecureUrl("headerImage"),
                           !.pc = "findOneAndUpdate"]]
          \/ reqs' = [reqs EXCEPT ![r] =
                 Respond(q, 500, "Error updating profile", UploadError)]
    /\ UNCHANGED <<store, started>>

\* Profile.findOneAndUpdate completes: the first matching document has every
\* path of the update document set (an undefined value is stored as null,
\* i.e. absent); no validators run; the unique index rejects a username
\* another document holds, which the catch block answers with 500.
UpdateFindOneAndUpdate(r) ==
    /\ reqs[r].kind = "update"
    /\ reqs[r].pc = "findOneAndUpdate"
    /\ LET q == Called(reqs[r], "findOneAndUpdate")
           m == UpdateMatches(store, q.key)
       IN IF m = {}
          THEN /\ reqs' = [reqs EXCEPT ![r] =
                      Respond(q, 404, "Profile not found", "")]
               /\ UNCHANGED store
          ELSE \E p \in m :
                 IF ~UniqueOk(store \ {p}, UpdateDoc(q))
                 THEN /\ reqs' = [reqs EXCEPT ![r] =
                             Respond(q, 500, "Error updating profile",
                                     "E11000")]
                      /\ UNCHANGED store
                 ELSE /\ store' = (store \ {p}) \cup {UpdateDoc(q)}
                      /\ reqs' = [reqs EXCEPT ![r] =
                             Respond(q, 200, "profile", "")]
    /\ UNCHANGED started

-----------------------------------------------------------------------------
(* The response has been sent (or the client gave up): the slot is free. *)
Retire(r) ==
    /\ reqs[r].pc \in {"done", "crashed"}
    /\ reqs' = [reqs EXCEPT ![r] = IdleReq]
    /\ UNCHANGED <<store, started>>

Next ==
    \E r \in Slots :
        \/ CreateRequest(r)
        \/ CreateFindOne(r)
        \/ CreateUploadProfile(r)
        \/ CreateUploadHeader(r)
        \/ CreateSave(r)
        \/ ReadRequest(r)
        \/ ReadFindOne(r)
        \/ DeleteRequest(r)
        \/ DeleteFindOneAndDelete(r)
        \/ UpdateRequest(r)
        \/ UpdateUploadProfile(r)
        \/ UpdateUploadHeader(r)
        \/ UpdateFindOneAndUpdate(r)
        \/ Retire(r)

Spec == Init /\ [][Next]_vars

-----------------------------------------------------------------------------
(* Two create requests for one username, and nothing else *)

RaceInputs ==
    [username : {Str_ab_pad, Str_abc, Str_ABC}, text : {TextFull, TextNoName},
     files : {NoFiles, BothFiles}, socialLinks : {Links1}]

InitRace ==
    /\ store \in {{}, {Seed(Str_abc)}}
    /\ reqs = [r \in Slots |-> IdleReq]
    /\ started = 0

\* A create request arrives that carries the username of the open one.
CreateRequestSame(r) ==
    /\ CreateRequestWith(r, RaceInputs)
    /\ \A o \in Slots \ {r} :
          reqs[o].pc # "idle" => reqs'[r].username = reqs[o].username

NextRace ==
    \E r \in Slots :
        \/ CreateRequestSame(r)
        \/ CreateFindOne(r)
        \/ CreateUploadProfile(r)
        \/ CreateUploadHeader(r)
        \/ CreateSave(r)

SpecRace == InitRace /\ [][NextRace]_vars

-----------------------------------------------------------------------------
(* Delete requests against a collection of hyphenated and spaced usernames *)

DeleteNames ==
    {Str_a_b, Str_a_b_up, Str_ahb, Str_a_bhc, Str_a_bhc_up, Str_a_b_c,
     Str_ahbhc, Str_abc}
DeleteKeys == {Str_ahb, Str_ahbhc, Str_adc, Str_a_b_c}

InitDelete ==
    /\ store \in {{Seed(u) : u \in names} : names \in SUBSET DeleteNames}
    /\ reqs = [r \in Slots |-> IdleReq]
    /\ started = 0

DeleteRequestHyphenated(r) == DeleteRequestWith(r, DeleteKeys)

NextDelete ==
    \E r \in Slots :
        \/ DeleteRequestHyphenated(r)
        \/ DeleteFindOneAndDelete(r)
        \/ Retire(r)

SpecDelete == InitDelete /\ [][NextDelete]_vars

-----------------------------------------------------------------------------
(* Vocabulary of the properties *)

\* How often a request has called a collaborator operation.
NumCalls(q, what) == Cardinality({i \in DOMAIN q.calls : q.calls[i] = what})

RepositoryOps == {"findOne", "insert", "findOneAndUpdate", "findOneAndDelete"}
NumRepositoryCalls(q) ==
    Cardinality({i \in DOMAIN q.calls : q.calls[i] \in RepositoryOps})

\* The username is missing or shorter than 3 characters once surrounding
\* blanks are dropped.
TooShort(u) ==
    \/ u = Undefined
    \/ LET inner == {i \in 1..Len(u) : u[i] # " "}
       IN  inner = {} \/ \A a \in inner, b \in inner : b - a + 1 < 3

\* The 400 answers that report a duplicate username.
IsConflict(q) ==
    /\ q.status = 400
    /\ q.message \in {"Username is already taken.",
                      "Profile key or username already exists."}

IsValidationError(q) ==
    /\ q.status = 400
    /\ q.message = "Username must be at least 3 characters long."

\* Letters compared without regard to case.
Fold(c) ==
    IF c \in {"a", "A"} THEN "a"
    ELSE IF c \in {"b", "B"} THEN "b"
    ELSE IF c \in {"c", "C"} THEN "c"
    ELSE c

\* The anchored, case-insensitive pattern pat matches all of u.
PatternMatches(pat, u) ==
    /\ u # Undefined
    /\ DOMAIN u = DOMAIN pat
    /\ \A i \in DOMAIN pat : pat[i] = "." \/ Fold(pat[i]) = Fold(u[i])

\* The key with its first hyphen, and only that one, turned into a space.
KeyPattern(k) ==
    LET hyphens == {i \in DOMAIN k : k[i] = "-"}
    IN  IF hyphens = {} THEN k
        ELSE [k EXCEPT ![CHOOSE i \in hyphens : \A j \in hyphens : i <= j] = " "]

UsernamesUnique == \A p1 \in store, p2 \in store :
                      p1.username = p2.username => p1 = p2

-----------------------------------------------------------------------------
\* C1: a create request whose username is missing or shorter than 3
\* characters after trimming is answered 400 (validation) at once, the store
\* is unchanged by it, and the request never calls the Image Store or the
\* Profile Repository.
C1_ShortUsernameRejected ==
    /\ [](\A r \in Slots :
            (reqs[r].kind = "create" /\ TooShort(reqs[r].username))
            => /\ reqs[r].pc = "done"
               /\ IsValidationError(reqs[r])
               /\ reqs[r].calls = <<>>)
    /\ [][\A r \in Slots :
            (reqs[r].pc = "idle" /\ reqs'[r].kind = "create"
                /\ TooShort(reqs'[r].username))
            => store' = store]_vars

\* A request with both files attached and the username " ab " was rejected.
C1_Witness ==
    \E r \in Slots :
        /\ reqs[r].kind = "create"
        /\ reqs[r].username = Str_ab_pad
        /\ reqs[r].files = BothFiles
        /\ reqs[r].pc = "done"
        /\ reqs[r].status = 400

-----------------------------------------------------------------------------
\* Both slots hold an answered create request and neither met an upload or
\* repository failure other than the unique index.
RaceOver ==
    \A r \in Slots :
        /\ reqs[r].kind = "create"
        /\ reqs[r].pc = "done"
        /\ reqs[r].error \notin {UploadError, "ValidationError"}

OneCreatedOneConflict ==
    \E r \in Slots :
        /\ reqs[r].status = 201
        /\ \A o \in Slots \ {r} : IsConflict(reqs[o])

\* C2 as stated: for any two create requests with the same username and no
\* failure besides the unique index, no two profiles share the username,
\* exactly one request is answered 201 and the other 400 (conflict).
C2_AsStated ==
    /\ UsernamesUnique
    /\ RaceOver => OneCreatedOneConflict

\* C2 (amended): the same, for a username that passes validation and that no
\* profile holds when the first of the two requests starts.
C2_RaceHasOneWinner ==
    /\ UsernamesUnique
    /\ (/\ RaceOver
        /\ \A r \in Slots : ~TooShort(reqs[r].username)
        /\ \E r \in Slots : ~reqs[r].storedAtStart)
       => OneCreatedOneConflict

\* Both requests passed the findOne pre-check; one inserted, the other was
\* rejected by the unique index.
C2_Witness ==
    /\ RaceOver
    /\ \A r \in Slots : ~reqs[r].storedAtStart
    /\ \E r \in Slots :
          /\ reqs[r].status = 400
          /\ reqs[r].error = "E11000"
          /\ \A o \in Slots \ {r} : reqs[o].status = 201

-----------------------------------------------------------------------------
\* C3 as stated: a create request whose (valid) username was stored when the
\* request started is answered 400 (conflict), and never uploads or inserts.
C3_AsStated ==
    \A r \in Slots :
        (/\ reqs[r].kind = "create"
         /\ reqs[r].storedAtStart
         /\ ~TooShort(reqs[r].username))
        => /\ NumCalls(reqs[r], "upload") = 0
           /\ NumCalls(reqs[r], "insert") = 0
           /\ reqs[r].pc = "done" => IsConflict(reqs[r])

\* C3 (amended): a create request whose username is stored when its
\* existence check runs is answered 400 (conflict) by that check, having
\* made no upload and no insert, and the store is unchanged; in every create
\* request the existence check is the first call of all.
C3_TakenUsernameRejected ==
    /\ [](\A r \in Slots :
            (reqs[r].kind = "create" /\ reqs[r].calls # <<>>)
            => reqs[r].calls[1] = "findOne")
    /\ [][\A r \in Slots :
            (/\ reqs[r].kind = "create"
             /\ reqs[r].pc = "findOne"
             /\ reqs'[r] # reqs[r]
             /\ \E p \in store : p.username = reqs[r].username)
            => /\ reqs'[r].pc = "done"
               /\ reqs'[r].status = 400
               /\ reqs'[r].message = "Username is already taken."
               /\ reqs'[r].calls = <<"findOne">>
               /\ store' = store]_vars

\* A create with both files attached was refused by the existence check.
C3_Witness ==
    \E r \in Slots :
        /\ reqs[r].kind = "create"
        /\ reqs[r].files = BothFiles
        /\ reqs[r].pc = "done"
        /\ reqs[r].message = "Username is already taken."
        /\ \E p \in store : p.username = reqs[r].username

-----------------------------------------------------------------------------
\* C4: every stored profile has a username of at least 3 characters after
\* trimming.
C4_StoredUsernamesLongEnough ==
    \A p \in store : ~TooShort(p.username)

-----------------------------------------------------------------------------
\* The request got past validation and its response is assembled.
Answered(q) ==
    /\ q.pc = "done"
    /\ ~IsValidationError(q)
    /\ q.error # "SyntaxError"

NumFiles(q) ==
    (IF q.files.profileImage THEN 1 ELSE 0)
    + (IF q.files.headerImage THEN 1 ELSE 0)

\* The calls are n uploads followed by the given repository operation.
UploadsThen(q, n, op) ==
    q.calls = [i \in 1..(n + 1) |-> IF i <= n THEN "upload" ELSE op]

\* C5 as stated: every answered request past validation has called the
\* Profile Repository exactly once, after 0 to 2 uploads.
C5_AsStated ==
    \A r \in Slots :
        Answered(reqs[r])
        => /\ NumRepositoryCalls(reqs[r]) = 1
           /\ NumCalls(reqs[r], "upload") <= 2
           /\ reqs[r].calls[Len(reqs[r].calls)] \in RepositoryOps

\* C5 (amended): every answered request past validation has made at most 2
\* uploads and at most 2 repository calls.  Read and delete make exactly one
\* repository call and no upload.  Update uploads each attached file and then
\* calls findOneAndUpdate once, or makes no repository call when an upload
\* fails.  Create calls findOne first; if the username is free it uploads
\* each attached file and then calls insert once, unless an upload fails.
C5_CallPattern ==
    \A r \in Slots :
        LET q == reqs[r] IN
        Answered(q) =>
            /\ NumCalls(q, "upload") <= 2
            /\ NumRepositoryCalls(q) <= 2
            /\ q.kind = "read" => q.calls = <<"findOne">>
            /\ q.kind = "delete" => q.calls = <<"findOneAndDelete">>
            /\ q.kind = "update" =>
                  IF q.error = UploadError
                  THEN /\ NumRepositoryCalls(q) = 0
                       /\ NumCalls(q, "upload") \in 1..NumFiles(q)
                  ELSE UploadsThen(q, NumFiles(q), "findOneAndUpdate")
            /\ q.kind = "create" =>
                  /\ q.calls[1] = "findOne"
                  /\ IF q.message = "Username is already taken."
                     THEN q.calls = <<"findOne">>
                     ELSE IF q.error = UploadError
                     THEN /\ NumRepositoryCalls(q) = 1
                          /\ NumCalls(q, "upload") \in 1..NumFiles(q)
                     ELSE Tail(q.calls) = [i \in 1..(NumFiles(q) + 1) |->
                             IF i <= NumFiles(q) THEN "upload" ELSE "insert"]

\* A create was answered 201 after findOne, two uploads and insert.
C5_Witness ==
    \E r \in Slots :
        /\ reqs[r].kind = "create"
        /\ reqs[r].status = 201
        /\ reqs[r].calls = <<"findOne", "upload", "upload", "insert">>

-----------------------------------------------------------------------------
\* The step is the failure of an upload of create request r: the handler
\* stood at an upload and did not go on with the uploaded URL.
CreateUploadFails(r) ==
    /\ reqs[r].kind = "create"
    /\ reqs'[r] # reqs[r]
    /\ \/ /\ reqs[r].pc = "uploadProfile"
          /\ reqs'[r].profileImageUrl # SecureUrl("profileImage")
       \/ /\ reqs[r].pc = "uploadHeader"
          /\ reqs'[r].headerImageUrl # SecureUrl("headerImage")

\* C6: when an upload of a create request fails, the request ends there with
\* a 500 carrying the Image Store's error message, the store is unchanged
\* and the request has inserted nothing, also when the first upload
\* succeeded and the second failed.
C6_UploadFailureAbortsCreate ==
    [][\A r \in Slots :
         CreateUploadFails(r)
         => /\ reqs'[r].pc = "done"
            /\ reqs'[r].status = 500
            /\ reqs'[r].error = UploadError
            /\ NumCalls(reqs'[r], "insert") = 0
            /\ store' = store]_vars

\* The first upload succeeded, the second failed, and no profile with the
\* request's username is stored.
C6_Witness ==
    \E r \in Slots :
        /\ reqs[r].kind = "create"
        /\ reqs[r].pc = "done"
        /\ reqs[r].status = 500
        /\ reqs[r].calls = <<"findOne", "upload", "upload">>
        /\ reqs[r].profileImageUrl = SecureUrl("profileImage")
        /\ \A p \in store : p.username # reqs[r].username

-----------------------------------------------------------------------------
\* C7: an update whose socialLinks is malformed is answered with the
\* validation status 400, having made no upload and no repository call.
C7_MalformedLinksAnswered400 ==
    \A r \in Slots :
        (/\ reqs[r].kind = "update"
         /\ reqs[r].rawSocialLinks = JsonMalformed
         /\ reqs[r].pc # "idle")
        => /\ reqs[r].pc = "done"
           /\ reqs[r].status = 400
           /\ reqs[r].calls = <<>>

-----------------------------------------------------------------------------
\* The document the request is expected to leave: every field as supplied,
\* each image the uploaded URL if a file is attached and else the body's URL.
ExpectedAfterUpdate(q) ==
    [username |-> q.username,
     name |-> q.text.name,
     jobTitle |-> q.text.jobTitle,
     profileImage |-> IF q.files.profileImage
                      THEN <<"https://cdn", "profileImage">>
                      ELSE q.imageBody.profileImage,
     headerImage |-> IF q.files.headerImage
                     THEN <<"https://cdn", "headerImage">>
                     ELSE q.imageBody.headerImage,
     phone |-> q.text.phone,
     email |-> q.text.email,
     isVerified |-> q.text.isVerified,
     isCompany |-> q.text.isCompany,
     socialLinks |-> IF q.rawSocialLinks = JsonLinks1 THEN Links1
                     ELSE NoLinks]

-----------------------------------------------------------------------------
\* The usernames of the profiles a step removes from the store.
RemovedNames == {p.username : p \in store \ store'}

\* C9: a delete request for key k removes exactly one profile whose username
\* matches, ignoring case, the pattern k with only its first hyphen turned
\* into a space, and answers 200; when no username matches it answers 404
\* and the store is unchanged.  Key "a-b" deletes "a b"; key "a-b-c" deletes
\* only "a b-c" in any letter case, never "a b c" or "a-b-c".
C9_DeleteFirstHyphenOnly ==
    [][\A r \in Slots :
         (/\ reqs[r].kind = "delete"
          /\ reqs[r].pc = "findOneAndDelete"
          /\ reqs'[r].pc = "done")
         => LET k == reqs[r].key
                m == {p \in store : PatternMatches(KeyPattern(k), p.username)}
            IN  /\ IF m = {}
                   THEN reqs'[r].status = 404 /\ store' = store
                   ELSE /\ reqs'[r].status = 200
                        /\ \E p \in m : store' = store \ {p}
                /\ k = Str_ahb
                   => /\ RemovedNames \subseteq {Str_a_b, Str_a_b_up}
                      /\ (\E p \in store : p.username = Str_a_b)
                         => reqs'[r].status = 200
                /\ k = Str_ahbhc
                   => RemovedNames \subseteq {Str_a_bhc, Str_a_bhc_up}]_vars

\* Key "a-b-c" was answered 200 while "a b c" and "a-b-c" stayed stored.
C9_Witness ==
    \E r \in Slots :
        /\ reqs[r].kind = "delete"
        /\ reqs[r].key = Str_ahbhc
        /\ reqs[r].status = 200
        /\ \E p \in store : p.username = Str_a_b_c
        /\ \E p \in store : p.username = Str_ahbhc
        /\ \A p \in store : p.username \notin {Str_a_bhc, Str_a_bhc_up}

-----------------------------------------------------------------------------
\* C10: no two stored profiles share a username, and every request whose
\* write the unique index rejected is answered with the conflict status 400.
C10_UniqueAndConflict400 ==
    /\ UsernamesUnique
    /\ \A r \in Slots :
          (reqs[r].pc = "done" /\ reqs[r].error = "E11000")
          => reqs[r].status = 400

====
